---- MODULE Spec2Model ----
(***************************************************************************)
(* Qatar Tenders API (src/main.py, src/schemas.py): the request handlers   *)
(* over the tender and bid collections, the schema validators, the filter  *)
(* built by list_tenders, the identifier codec and the document mappers.   *)
(*                                                                         *)
(* Text is a sequence of one-character strings.  An optional value is None *)
(* (the empty tuple, JSON null / Python None) or Some(v) (a one-tuple).    *)
(* A request body or a stored document is a function from the names of the *)
(* fields that are present to optional values.                             *)
(***************************************************************************)
EXTENDS Integers, Sequences, FiniteSets, TLC

VARIABLES
    tender,     \* the "tender" collection: sequence of documents, in insertion order
    bid,        \* the "bid" collection: sequence of documents, in insertion order
    nextId,     \* the identifier the gateway assigns to the next inserted document
    now,        \* the wall clock read by datetime.utcnow()
    response    \* the last request and the response it was given

vars == <<tender, bid, nextId, now, response>>

(***************************************************************************)
(* Bounds of the model.                                                    *)
(***************************************************************************)
MaxDocuments == 3
MaxStored == 2
MaxTime == 2
IdLen == 2
FirstId == 10

None == <<>>
Some(v) == <<v>>

(***************************************************************************)
(* Text.                                                                   *)
(***************************************************************************)
UpperToLower ==
    [A |-> "a", B |-> "b", C |-> "c", D |-> "d", E |-> "e", F |-> "f", G |-> "g",
     H |-> "h", I |-> "i", J |-> "j", K |-> "k", L |-> "l", M |-> "m", N |-> "n",
     O |-> "o", P |-> "p", Q |-> "q", R |-> "r", S |-> "s", T |-> "t", U |-> "u",
     V |-> "v", W |-> "w", X |-> "x", Y |-> "y", Z |-> "z"]

Lower(c) == IF c \in DOMAIN UpperToLower THEN UpperToLower[c] ELSE c

LowerToUpper ==
    [a |-> "A", b |-> "B", c |-> "C", d |-> "D", e |-> "E", f |-> "F", g |-> "G",
     h |-> "H", i |-> "I", j |-> "J", k |-> "K", l |-> "L", m |-> "M", n |-> "N",
     o |-> "O", p |-> "P", q |-> "Q", r |-> "R", s |-> "S", t |-> "T", u |-> "U",
     v |-> "V", w |-> "W", x |-> "X", y |-> "Y", z |-> "Z"]

Upper(c) == IF c \in DOMAIN LowerToUpper THEN LowerToUpper[c] ELSE c

UpperText(t) == [i \in 1..Len(t) |-> Upper(t[i])]

(***************************************************************************)
(* The pattern language of the store's $regex operator, for patterns made  *)
(* of ordinary characters, "." (any one character) and "(" (which opens a  *)
(* group and so, never closed, makes the pattern invalid).                 *)
(***************************************************************************)
RegexInvalid(p) ==
    Cardinality({i \in 1..Len(p) : p[i] = "("})
        # Cardinality({i \in 1..Len(p) : p[i] = ")"})

RegexCharMatches(pc, c) == pc = "." \/ Lower(pc) = Lower(c)

\* {"$regex": p, "$options": "i"}: an unanchored, case-insensitive search.
RegexSearch(t, p) ==
    \E s \in 0..(Len(t) - Len(p)) :
        \A j \in 1..Len(p) : RegexCharMatches(p[j], t[s + j])

\* A $regex clause on a field: the field holds a string that matches, or an
\* array one of whose elements matches.  The tags field is the array.
RegexField(d, k, p) ==
    /\ k \in DOMAIN d
    /\ d[k] # None
    /\ IF k = "tags"
       THEN \E i \in 1..Len(d[k][1]) : RegexSearch(d[k][1][i], p)
       ELSE RegexSearch(d[k][1], p)

\* An equality clause on a field.
EqField(d, k, v) == k \in DOMAIN d /\ d[k] = Some(v)

(***************************************************************************)
(* Identifier codec: ObjectId(text) and str(ObjectId).  The native         *)
(* identifier is a number; its text is IdLen lowercase hexadecimal digits. *)
(***************************************************************************)
HexDigits == <<"0","1","2","3","4","5","6","7","8","9","a","b","c","d","e","f">>

HexValues ==
    [c \in {HexDigits[i] : i \in 1..16} |-> (CHOOSE i \in 1..16 : HexDigits[i] = c) - 1]

HexValue(c) == HexValues[Lower(c)]

IsHex(c) == Lower(c) \in DOMAIN HexValues

RECURSIVE HexText(_, _)
HexText(n, width) ==
    IF width = 0 THEN <<>>
    ELSE Append(HexText(n \div 16, width - 1), HexDigits[(n % 16) + 1])

RECURSIVE HexNumber(_)
HexNumber(t) ==
    IF t = <<>> THEN 0
    ELSE 16 * HexNumber(SubSeq(t, 1, Len(t) - 1)) + HexValue(t[Len(t)])

\* str(oid)
FormatId(n) == HexText(n, IdLen)

\* ObjectId(text) raises InvalidId unless text is IdLen hexadecimal digits,
\* of either letter case.
ValidIdText(t) == Len(t) = IdLen /\ \A i \in 1..Len(t) : IsHex(t[i])

ParseId(t) == HexNumber(t)

(***************************************************************************)
(* Schema validators (src/schemas.py).  A body is valid when every         *)
(* required field is present, no field that is not Optional is null, and   *)
(* every bounded number is at least its bound.                             *)
(***************************************************************************)
Qatar == <<"Q","a","t","a","r">>
Open == <<"o","p","e","n">>
Closed == <<"c","l","o","s","e","d">>

TenderFields ==
    {"title", "description", "category", "budget_qar", "issuer", "location",
     "deadline", "status", "tags"}

\* Field(...): no default.
TenderRequired == {"title", "description", "category", "issuer", "deadline"}

\* Optional[...]: null is a value of the field.
TenderNullable == {"budget_qar", "tags"}

\* The defaults of the fields that have one.
TenderDefaults ==
    [budget_qar |-> None, location |-> Some(Qatar), status |-> Some(Open),
     tags |-> Some(<<>>)]

\* The bound dropped from the field.
GeZeroUnbounded(v) == TRUE

\* Field(..., ge=0)
GeZero(v) == v >= 0

\* The fields the validator rejects (the detail of the 422 response).
TenderErrors(raw) ==
    {k \in TenderRequired : k \notin DOMAIN raw}
        \cup {k \in (DOMAIN raw) \ TenderNullable : raw[k] = None}
        \cup {k \in {"budget_qar"} \cap DOMAIN raw : raw[k] # None /\ ~GeZero(raw[k][1])}

TenderValid(raw) == TenderErrors(raw) = {}

\* Only the fields the body carries, no defaults.
TenderDumpUnset(raw) == raw

\* model_dump() of the validated Tender: every field, defaults filled in.
TenderDump(raw) ==
    [k \in TenderFields |-> IF k \in DOMAIN raw THEN raw[k] ELSE TenderDefaults[k]]

BidFields ==
    {"tender_id", "company_name", "contact_email", "amount_qar",
     "proposal_summary", "delivery_time_days"}

BidRequired == {"tender_id", "company_name", "amount_qar"}

BidNullable == {"contact_email", "proposal_summary", "delivery_time_days"}

BidDefaults ==
    [contact_email |-> None, proposal_summary |-> None, delivery_time_days |-> None]

BidErrors(raw) ==
    {k \in BidRequired : k \notin DOMAIN raw}
        \cup {k \in (DOMAIN raw) \ BidNullable : raw[k] = None}
        \cup {k \in {"amount_qar", "delivery_time_days"} \cap DOMAIN raw :
                raw[k] # None /\ ~GeZero(raw[k][1])}

BidValid(raw) == BidErrors(raw) = {}

BidDump(raw) ==
    [k \in BidFields |-> IF k \in DOMAIN raw THEN raw[k] ELSE BidDefaults[k]]

(***************************************************************************)
(* Data-access gateway: insert assigns a new unique identifier; find       *)
(* returns the documents a predicate selects; find_one looks one up by its *)
(* identifier.                                                             *)
(***************************************************************************)
\* create_document(collection_name, data): the collection after the insert.
InsertDocument(coll, doc, id) ==
    Append(coll, [k \in (DOMAIN doc) \cup {"_id"} |-> IF k = "_id" THEN id ELSE doc[k]])

\* get_documents(collection_name, filter_dict): the documents of the
\* collection the filter selects, in the collection's order.
GetDocuments(coll, selected) == SelectSeq(coll, LAMBDA d : d \in selected)

\* db[collection].find_one({"_id": oid}) found a document.
Found(coll, oid) == \E i \in 1..Len(coll) : coll[i]["_id"] = oid

FindOne(coll, oid) == coll[CHOOSE i \in 1..Len(coll) : coll[i]["_id"] = oid]

\* d.get(k) and d.get(k, default)
Get(d, k) == IF k \in DOMAIN d THEN d[k] ELSE None

GetOr(d, k, default) == IF k \in DOMAIN d THEN d[k] ELSE default

(***************************************************************************)
(* Document mappers: the keyword arguments the handlers pass to TenderOut  *)
(* and BidOut, and the validation those models apply to them.              *)
(***************************************************************************)
TenderOutArgs(d) ==
    [id |-> FormatId(d["_id"]),
     title |-> Get(d, "title"),
     description |-> Get(d, "description"),
     category |-> Get(d, "category"),
     budget_qar |-> Get(d, "budget_qar"),
     issuer |-> Get(d, "issuer"),
     location |-> Get(d, "location"),
     deadline |-> Get(d, "deadline"),
     status |-> GetOr(d, "status", Some(Open)),
     tags |-> GetOr(d, "tags", Some(<<>>))]

\* class TenderOut: the fields that are not Optional must not be None.
TenderOutRequired ==
    {"title", "description", "category", "issuer", "location", "deadline", "status"}

TenderOutValid(a) == \A k \in TenderOutRequired : a[k] # None

BidOutArgs(d) ==
    [id |-> FormatId(d["_id"]),
     tender_id |-> Get(d, "tender_id"),
     company_name |-> Get(d, "company_name"),
     contact_email |-> Get(d, "contact_email"),
     amount_qar |-> Get(d, "amount_qar"),
     proposal_summary |-> Get(d, "proposal_summary"),
     delivery_time_days |-> Get(d, "delivery_time_days")]

BidOutRequired == {"tender_id", "company_name", "amount_qar"}

BidOutValid(a) == \A k \in BidOutRequired : a[k] # None

(***************************************************************************)
(* Responses.  HTTPException(status_code, detail) and FastAPI's 422 for a  *)
(* body the schema rejects.                                                *)
(***************************************************************************)
Ok == 200
NotFound == 404
Unprocessable == 422
ServerError == 500

\* A response: the handler that answered, the status code, and the body --
\* {"id": ...}, a list of output records (a single record is a list of one),
\* {"inserted": ...}, the detail of an HTTPException, or the fields a
\* validation error names.  The parts a body does not have are empty.
Response(op, status) ==
    [op |-> op, status |-> status, id |-> <<>>, items |-> <<>>, inserted |-> 0,
     detail |-> "", fields |-> {}]

Created(op, id) == [Response(op, Ok) EXCEPT !.id = id]

Records(op, items) == [Response(op, Ok) EXCEPT !.items = items]

Failure(op, status, detail) == [Response(op, status) EXCEPT !.detail = detail]

Rejected(op, fields) == [Response(op, Unprocessable) EXCEPT !.fields = fields]

(***************************************************************************)
(* POST /api/tenders                                                       *)
(***************************************************************************)
create_tender(raw) ==
    IF ~TenderValid(raw)
    THEN /\ response' = Rejected("create_tender", TenderErrors(raw))
         /\ UNCHANGED <<tender, bid, nextId, now>>
    ELSE /\ nextId - FirstId < MaxDocuments
         /\ tender' = InsertDocument(tender, TenderDump(raw), nextId)
         /\ nextId' = nextId + 1
         /\ response' = Created("create_tender", FormatId(nextId))
         /\ UNCHANGED <<bid, now>>

(***************************************************************************)
(* GET /api/tenders?q=&category=&status=                                   *)
(***************************************************************************)
\* `if q:` -- None and the empty string are both false.
Truthy(x) == x # None /\ x[1] # <<>>

\* filter_dict applied to one document.
TenderFilter(d, q, category, status) ==
    /\ Truthy(q) =>
          \/ RegexField(d, "title", q[1])
          \/ RegexField(d, "description", q[1])
          \/ RegexField(d, "tags", q[1])
    /\ Truthy(category) => EqField(d, "category", category[1])
    /\ Truthy(status) => EqField(d, "status", status[1])

ListTendersResponse(coll, q, category, status) ==
    IF Truthy(q) /\ RegexInvalid(q[1])
    THEN Failure("list_tenders", ServerError, "OperationFailure")
    ELSE LET docs == GetDocuments(coll,
                        {coll[i] : i \in {j \in 1..Len(coll) :
                                            TenderFilter(coll[j], q, category, status)}})
             results == [i \in 1..Len(docs) |-> TenderOutArgs(docs[i])]
         IN  IF \A i \in 1..Len(results) : TenderOutValid(results[i])
             THEN Records("list_tenders", results)
             ELSE Failure("list_tenders", ServerError, "ValidationError")

list_tenders(q, category, status) ==
    /\ response' = ListTendersResponse(tender, q, category, status)
    /\ UNCHANGED <<tender, bid, nextId, now>>

(***************************************************************************)
(* GET /api/tenders/{tender_id}                                            *)
(***************************************************************************)
GetTenderResponse(coll, tender_id) ==
    IF ~ValidIdText(tender_id)
    THEN Failure("get_tender", ServerError, "InvalidId")
    ELSE IF ~Found(coll, ParseId(tender_id))
    THEN Failure("get_tender", NotFound, "Tender not found")
    ELSE LET a == TenderOutArgs(FindOne(coll, ParseId(tender_id)))
         IN  IF TenderOutValid(a)
             THEN Records("get_tender", <<a>>)
             ELSE Failure("get_tender", ServerError, "ValidationError")

get_tender(tender_id) ==
    /\ response' = GetTenderResponse(tender, tender_id)
    /\ UNCHANGED <<tender, bid, nextId, now>>

(***************************************************************************)
(* POST /api/tenders/{tender_id}/bids                                      *)
(***************************************************************************)
\* The reference of the body kept.
BidDataFromBody(raw, tender_id) == BidDump(raw)

\* data = bid.model_dump(); data["tender_id"] = tender_id
BidData(raw, tender_id) == [BidDump(raw) EXCEPT !["tender_id"] = Some(tender_id)]

\* Bids refused on a tender that is not open or whose deadline has passed.
submit_bid_open_only(tender_id, raw) ==
    IF ~BidValid(raw)
    THEN /\ response' = Rejected("submit_bid", BidErrors(raw))
         /\ UNCHANGED <<tender, bid, nextId, now>>
    ELSE IF ~ValidIdText(tender_id)
    THEN /\ response' = Failure("submit_bid", ServerError, "InvalidId")
         /\ UNCHANGED <<tender, bid, nextId, now>>
    ELSE IF ~Found(tender, ParseId(tender_id))
    THEN /\ response' = Failure("submit_bid", NotFound, "Tender not found")
         /\ UNCHANGED <<tender, bid, nextId, now>>
    ELSE IF \/ FindOne(tender, ParseId(tender_id))["status"] # Some(Open)
            \/ FindOne(tender, ParseId(tender_id))["deadline"][1] < now
    THEN /\ response' = Failure("submit_bid", 400, "Tender is not open")
         /\ UNCHANGED <<tender, bid, nextId, now>>
    ELSE /\ nextId - FirstId < MaxDocuments
         /\ bid' = InsertDocument(bid, BidData(raw, tender_id), nextId)
         /\ nextId' = nextId + 1
         /\ response' = Created("submit_bid", FormatId(nextId))
         /\ UNCHANGED <<tender, now>>

submit_bid(tender_id, raw) ==
    IF ~BidValid(raw)
    THEN /\ response' = Rejected("submit_bid", BidErrors(raw))
         /\ UNCHANGED <<tender, bid, nextId, now>>
    ELSE IF ~ValidIdText(tender_id)
    THEN /\ response' = Failure("submit_bid", ServerError, "InvalidId")
         /\ UNCHANGED <<tender, bid, nextId, now>>
    ELSE IF ~Found(tender, ParseId(tender_id))
    THEN /\ response' = Failure("submit_bid", NotFound, "Tender not found")
         /\ UNCHANGED <<tender, bid, nextId, now>>
    ELSE /\ nextId - FirstId < MaxDocuments
         /\ bid' = InsertDocument(bid, BidData(raw, tender_id), nextId)
         /\ nextId' = nextId + 1
         /\ response' = Created("submit_bid", FormatId(nextId))
         /\ UNCHANGED <<tender, now>>

(***************************************************************************)
(* GET /api/tenders/{tender_id}/bids                                       *)
(***************************************************************************)
ListBidsResponse(coll, tender_id) ==
    LET docs == GetDocuments(coll,
                   {coll[i] : i \in {j \in 1..Len(coll) :
                                       EqField(coll[j], "tender_id", tender_id)}})
        results == [i \in 1..Len(docs) |-> BidOutArgs(docs[i])]
    IN  IF \A i \in 1..Len(results) : BidOutValid(results[i])
        THEN Records("list_bids", results)
        ELSE Failure("list_bids", ServerError, "ValidationError")

list_bids(tender_id) ==
    /\ response' = ListBidsResponse(bid, tender_id)
    /\ UNCHANGED <<tender, bid, nextId, now>>

(***************************************************************************)
(* POST /api/seed: three sample tenders, inserted without validation, each *)
(* with the current time as its deadline.                                  *)
(***************************************************************************)
Example1(t) ==
    [title |-> Some(<<"R","o","a","d"," ","M","a","i","n","t","e","n","a","n","c","e"," ","f","o","r"," ","A","l"," ","R","a","y","y","a","n">>),
     description |-> Some(<<"A","n","n","u","a","l"," ","m","a","i","n","t","e","n","a","n","c","e"," ","o","f"," ","m","u","n","i","c","i","p","a","l"," ","r","o","a","d","s"," ","i","n","c","l","u","d","i","n","g"," ","r","e","s","u","r","f","a","c","i","n","g"," ","a","n","d"," ","s","i","g","n","a","g","e",".">>),
     category |-> Some(<<"C","o","n","s","t","r","u","c","t","i","o","n">>),
     budget_qar |-> Some(2500000),
     issuer |-> Some(<<"M","i","n","i","s","t","r","y"," ","o","f"," ","M","u","n","i","c","i","p","a","l","i","t","y">>),
     location |-> Some(<<"A","l"," ","R","a","y","y","a","n",","," ","Q","a","t","a","r">>),
     deadline |-> Some(t),
     status |-> Some(Open),
     tags |-> Some(<<<<"r","o","a","d","s">>, <<"m","a","i","n","t","e","n","a","n","c","e">>, <<"m","u","n","i","c","i","p","a","l","i","t","y">>>>)]

Example2(t) ==
    [title |-> Some(<<"I","T"," ","I","n","f","r","a","s","t","r","u","c","t","u","r","e"," ","U","p","g","r","a","d","e"," ","-"," ","E","d","u","c","a","t","i","o","n"," ","S","e","c","t","o","r">>),
     description |-> Some(<<"S","u","p","p","l","y"," ","a","n","d"," ","i","n","s","t","a","l","l","a","t","i","o","n"," ","o","f"," ","n","e","t","w","o","r","k"," ","e","q","u","i","p","m","e","n","t"," ","a","n","d"," ","s","e","r","v","e","r","s"," ","f","o","r"," ","p","u","b","l","i","c"," ","s","c","h","o","o","l","s",".">>),
     category |-> Some(<<"I","T">>),
     budget_qar |-> Some(1800000),
     issuer |-> Some(<<"M","i","n","i","s","t","r","y"," ","o","f"," ","E","d","u","c","a","t","i","o","n"," ","a","n","d"," ","H","i","g","h","e","r"," ","E","d","u","c","a","t","i","o","n">>),
     location |-> Some(<<"D","o","h","a",","," ","Q","a","t","a","r">>),
     deadline |-> Some(t),
     status |-> Some(Open),
     tags |-> Some(<<<<"n","e","t","w","o","r","k">>, <<"s","e","r","v","e","r","s">>, <<"e","d","u","c","a","t","i","o","n">>>>)]

Example3(t) ==
    [title |-> Some(<<"H","e","a","l","t","h","c","a","r","e"," ","C","o","n","s","u","m","a","b","l","e","s"," ","S","u","p","p","l","y">>),
     description |-> Some(<<"F","r","a","m","e","w","o","r","k"," ","a","g","r","e","e","m","e","n","t"," ","f","o","r"," ","s","u","p","p","l","y"," ","o","f"," ","m","e","d","i","c","a","l"," ","c","o","n","s","u","m","a","b","l","e","s"," ","t","o"," ","h","o","s","p","i","t","a","l","s",".">>),
     category |-> Some(<<"H","e","a","l","t","h","c","a","r","e">>),
     budget_qar |-> Some(1200000),
     issuer |-> Some(<<"M","i","n","i","s","t","r","y"," ","o","f"," ","P","u","b","l","i","c"," ","H","e","a","l","t","h">>),
     location |-> Some(<<"Q","a","t","a","r">>),
     deadline |-> Some(t),
     status |-> Some(Open),
     tags |-> Some(<<<<"m","e","d","i","c","a","l">>, <<"c","o","n","s","u","m","a","b","l","e","s">>, <<"f","r","a","m","e","w","o","r","k">>>>)]

seed_sample ==
    /\ nextId - FirstId + 3 <= MaxDocuments
    /\ tender' = InsertDocument(
                    InsertDocument(
                        InsertDocument(tender, Example1(now), nextId),
                        Example2(now), nextId + 1),
                    Example3(now), nextId + 2)
    /\ nextId' = nextId + 3
    /\ response' = [Response("seed_sample", Ok) EXCEPT !.inserted = 3]
    /\ UNCHANGED <<bid, now>>

\* Time passes.
Tick ==
    /\ now < MaxTime
    /\ now' = now + 1
    /\ UNCHANGED <<tender, bid, nextId, response>>

(***************************************************************************)
(* The requests the model sends.                                           *)
(***************************************************************************)
Restrict(f, S) == [k \in S |-> f[k]]

Bridge == <<"B","r","i","d","g","e">>
RoadWorks == <<"R","o","a","d"," ","w","o","r","k","s">>
Acme == <<"A","c","m","e">>
Doha == <<"D","o","h","a">>
IT == <<"I","T">>
Construction == <<"C","o","n","s","t","r","u","c","t","i","o","n">>
Road == <<"r","o","a","d">>

TenderA ==
    [title |-> Some(RoadWorks), description |-> Some(Bridge), category |-> Some(IT),
     budget_qar |-> Some(5), issuer |-> Some(Acme), location |-> Some(Doha),
     deadline |-> Some(0), status |-> Some(Closed), tags |-> Some(<<Road>>)]

\* Only the required fields.
TenderB ==
    [title |-> Some(Bridge), description |-> Some(<<>>), category |-> Some(Construction),
     issuer |-> Some(Acme), deadline |-> Some(2)]

TenderBodies ==
    {TenderA,
     TenderB,
     [TenderA EXCEPT !["budget_qar"] = Some(-1)],
     [TenderA EXCEPT !["location"] = None],
     Restrict(TenderA, TenderFields \ {"title"})}

BidA ==
    [tender_id |-> Some(<<"z","z">>), company_name |-> Some(Acme),
     contact_email |-> Some(<<"a","@","b">>), amount_qar |-> Some(7),
     proposal_summary |-> Some(Bridge), delivery_time_days |-> Some(3)]

BidBodies ==
    {Restrict(BidA, BidRequired \cup {"delivery_time_days"}),
     [BidA EXCEPT !["amount_qar"] = Some(-1)],
     [BidA EXCEPT !["delivery_time_days"] = Some(-2)]}

\* Identifier texts: the identifier of every stored Tender, in lowercase and
\* in uppercase, the identifier the gateway has not assigned yet (well formed,
\* naming no Tender), one text that is too short and one with a character
\* that is no hexadecimal digit.
PathIds ==
    {FormatId(tender[i]["_id"]) : i \in 1..Len(tender)}
        \cup {UpperText(FormatId(tender[i]["_id"])) : i \in 1..Len(tender)}
        \cup {FormatId(nextId), Tail(FormatId(FirstId)),
              [FormatId(FirstId) EXCEPT ![1] = "g"]}

QInputs == {None, Some(<<>>), Some(Road), Some(<<"r",".","a","d">>), Some(<<"(">>)}

CategoryInputs == {None, Some(<<>>), Some(IT)}

StatusInputs == {None, Some(Closed)}

(***************************************************************************)
(* The service: it starts with empty collections.                          *)
(***************************************************************************)
Init ==
    /\ tender = <<>>
    /\ bid = <<>>
    /\ nextId = FirstId
    /\ now = 1
    /\ response = Response("none", Ok)

Next ==
    \/ \E raw \in TenderBodies : create_tender(raw)
    \/ \E q \in QInputs, category \in CategoryInputs, status \in StatusInputs :
          list_tenders(q, category, status)
    \/ \E id \in PathIds : get_tender(id)
    \/ \E id \in PathIds, raw \in BidBodies : submit_bid(id, raw)
    \/ \E id \in PathIds : list_bids(id)
    \/ seed_sample
    \/ Tick

Spec == Init /\ [][Next]_vars

(***************************************************************************)
(* The document mapper on the documents a store may hold.  The collection  *)
(* is not written through this service alone: a stored Tender document     *)
(* carries every required field and any subset of the optional ones.  The  *)
(* service reads such a store through list_tenders and get_tender.         *)
(***************************************************************************)
TenderOptional == TenderFields \ TenderRequired

StoredTenders(id) ==
    {Restrict(InsertDocument(<<>>, TenderDump(raw), id)[1],
              {"_id"} \cup TenderRequired \cup present) :
        raw \in {TenderA}, present \in SUBSET TenderOptional}

InitStore ==
    /\ \E n \in 1..MaxStored :
          /\ tender \in [1..n -> UNION {StoredTenders(FirstId + i - 1) : i \in 1..n}]
          /\ \A i \in 1..n : tender[i]["_id"] = FirstId + i - 1
          /\ nextId = FirstId + n
    /\ bid = <<>>
    /\ now = 1
    /\ response = Response("none", Ok)

NextRead ==
    \/ \E q \in QInputs, category \in CategoryInputs, status \in StatusInputs :
          list_tenders(q, category, status)
    \/ \E id \in PathIds : get_tender(id)

SpecStore == InitStore /\ [][NextRead]_vars

(***************************************************************************)
(* Properties.                                                             *)
(***************************************************************************)
ClientError(status) == status \in 400..499

\* The identifier text names a Tender of the collection.
Resolves(id) == ValidIdText(id) /\ Found(tender, ParseId(id))

HasNegative(raw, k) == k \in DOMAIN raw /\ raw[k] # None /\ raw[k][1] < 0

\* C1: submitting a valid Bid body under an identifier that does not resolve
\* to an existing Tender is answered with a client error (4xx) and leaves the
\* bid collection unchanged.
C1_UnresolvedBidIsClientError ==
    [][\A id \in PathIds, raw \in BidBodies :
          (BidValid(raw) /\ ~Resolves(id) /\ submit_bid(id, raw))
              => (ClientError(response'.status) /\ bid' = bid)]_vars

\* C2: fetching a Tender by a malformed identifier text is answered with a
\* client error that is not the NotFound answer, without any lookup.
C2_MalformedIdIsClientError ==
    [][\A id \in PathIds :
          (~ValidIdText(id) /\ get_tender(id))
              => (ClientError(response'.status) /\ response'.status # NotFound)]_vars

\* C5: a Tender body with a negative budget, and a Bid body with a negative
\* amount or a negative delivery time, is rejected by validation, and the
\* tender and bid collections are left as they were.
C5_NegativeRejected ==
    [][/\ response'.op = "create_tender" =>
             \A raw \in {x \in TenderBodies : HasNegative(x, "budget_qar")} :
                create_tender(raw)
                    => /\ response'.status = Unprocessable
                       /\ "budget_qar" \in response'.fields
                       /\ tender' = tender /\ bid' = bid
       /\ response'.op = "submit_bid" =>
             \A id \in PathIds :
                \A raw \in BidBodies, k \in {"amount_qar", "delivery_time_days"} :
                   (HasNegative(raw, k) /\ submit_bid(id, raw))
                      => /\ response'.status = Unprocessable
                         /\ k \in response'.fields
                         /\ tender' = tender /\ bid' = bid]_vars

\* A negative budget was submitted and refused while tenders were stored.
C5_Witness ==
    /\ response.op = "create_tender"
    /\ response.status = Unprocessable
    /\ "budget_qar" \in response.fields
    /\ Len(tender) > 0

\* q occurs in t as a literal substring, letters compared without case.
ContainsIgnoreCase(t, q) ==
    \E s \in 0..(Len(t) - Len(q)) :
        \A j \in 1..Len(q) : Lower(t[s + j]) = Lower(q[j])

\* The free-text clause as documented: q occurs, letters compared without
\* case, in the title, in the description or in one of the tags.
FreeTextMatches(d, q) ==
    \/ ContainsIgnoreCase(d["title"][1], q)
    \/ ContainsIgnoreCase(d["description"][1], q)
    \/ /\ d["tags"] # None
       /\ \E i \in 1..Len(d["tags"][1]) : ContainsIgnoreCase(d["tags"][1][i], q)

\* The documented predicate: the conjunction of the clauses of the criteria
\* that are supplied (a criterion left out, or left empty, is not supplied).
DocumentedFilter(d, q, category, status) ==
    /\ Truthy(q) => FreeTextMatches(d, q[1])
    /\ Truthy(category) => d["category"] = Some(category[1])
    /\ Truthy(status) => d["status"] = Some(status[1])

\* The identifiers of the records of a response, and of the documents of a
\* collection that satisfy a predicate.
ItemIds(r) == {r.items[i].id : i \in 1..Len(r.items)}

\* C3: for every combination of q, category and status, the listing returns
\* exactly the stored Tenders that satisfy the conjunction of the supplied
\* criteria, the q clause being a disjunction over title, description and
\* tags; with no criteria every Tender is returned.
C3_ListReturnsConjunction ==
    [][response'.op = "list_tenders" =>
          \A q \in QInputs, category \in CategoryInputs, status \in StatusInputs :
             list_tenders(q, category, status)
                => /\ response'.status = Ok
                   /\ Len(response'.items) = Cardinality(ItemIds(response'))
                   /\ ItemIds(response') =
                         {FormatId(tender[i]["_id"]) :
                            i \in {j \in 1..Len(tender) :
                                     DocumentedFilter(tender[j], q, category, status)}}]_vars

\* C4: for every non-empty q, the free-text clause selects a Tender exactly
\* when q occurs as a case-insensitive literal substring of its title, its
\* description or one of its tags.
C4_FreeTextIsLiteralSubstring ==
    [][response'.op = "list_tenders" =>
          \A q \in QInputs :
             (Truthy(q) /\ list_tenders(q, None, None))
                => /\ response'.status = Ok
                   /\ \A i \in 1..Len(tender) :
                         FormatId(tender[i]["_id"]) \in ItemIds(response')
                            <=> FreeTextMatches(tender[i], q[1])]_vars

\* The record a Tender body reads back as: each field of the body, and the
\* documented default for each optional field the body leaves out.
ReadBack(raw, id) ==
    [id |-> id,
     title |-> raw["title"],
     description |-> raw["description"],
     category |-> raw["category"],
     budget_qar |-> IF "budget_qar" \in DOMAIN raw THEN raw["budget_qar"] ELSE None,
     issuer |-> raw["issuer"],
     location |-> IF "location" \in DOMAIN raw THEN raw["location"] ELSE Some(Qatar),
     deadline |-> raw["deadline"],
     status |-> IF "status" \in DOMAIN raw THEN raw["status"] ELSE Some(Open),
     tags |-> IF "tags" \in DOMAIN raw THEN raw["tags"] ELSE Some(<<>>)]

\* C6: a valid Tender body, once created, is fetched under the returned
\* identifier as a record equal to the body field for field, with the
\* documented default for each optional field left out and with the returned
\* identifier as its id; and a record that can be fetched is fetched the same
\* after every later request.
C6_RoundTrip ==
    [][/\ response'.op = "create_tender" =>
             \A raw \in TenderBodies :
                (TenderValid(raw) /\ create_tender(raw))
                    => GetTenderResponse(tender', response'.id)
                          = Records("get_tender", <<ReadBack(raw, response'.id)>>)
       /\ tender' # tender =>
             \A i \in 1..Len(tender) :
                GetTenderResponse(tender', FormatId(tender[i]["_id"]))
                   = GetTenderResponse(tender, FormatId(tender[i]["_id"]))]_vars

\* A Tender created from the required fields alone was fetched, and read back
\* with every default.
C6_Witness ==
    /\ response.op = "get_tender"
    /\ response.status = Ok
    /\ response.items[1].title = Some(Bridge)
    /\ response.items[1].budget_qar = None
    /\ response.items[1].status = Some(Open)
    /\ response.items[1].location = Some(Qatar)
    /\ response.items[1].tags = Some(<<>>)

\* C8: a valid Bid body submitted under an identifier that resolves to an
\* existing Tender succeeds and adds exactly one Bid document, whatever the
\* Tender's status and whether or not its deadline has passed.
C8_BidsArePermissive ==
    [][response'.op = "submit_bid" =>
          \A id \in {x \in PathIds : Resolves(x)}, raw \in {x \in BidBodies : BidValid(x)} :
             submit_bid(id, raw)
                => /\ response'.status = Ok
                   /\ Len(bid') = Len(bid) + 1
                   /\ SubSeq(bid', 1, Len(bid)) = bid
                   /\ response'.id = FormatId(bid'[Len(bid')]["_id"])]_vars

\* The last request submitted a Bid, with success, to a Tender that is closed
\* and whose deadline lies in the past.
C8_Witness ==
    /\ response.op = "submit_bid"
    /\ response.status = Ok
    /\ Len(bid) > 0
    /\ LET t == FindOne(tender, ParseId(bid[Len(bid)]["tender_id"][1]))
       IN  t["status"] = Some(Closed) /\ t["deadline"][1] < now

\* C9: every Bid document refers to a Tender of the tender collection, and
\* the reference it stores is the identifier of the request path, not the
\* tender_id of the request body.
C9_BidsReferToTenders ==
    [][/\ \A i \in 1..Len(bid') :
             /\ bid'[i]["tender_id"] # None
             /\ ValidIdText(bid'[i]["tender_id"][1])
             /\ Found(tender', ParseId(bid'[i]["tender_id"][1]))
       /\ (response'.op = "submit_bid" /\ response'.status = Ok) =>
             \A id \in PathIds, raw \in BidBodies :
                submit_bid(id, raw) => bid'[Len(bid')]["tender_id"] = Some(id)]_vars

\* A Bid is stored whose reference differs from the tender_id of its body.
C9_Witness ==
    /\ response.op = "submit_bid"
    /\ response.status = Ok
    /\ Len(bid) > 0
    /\ \A raw \in BidBodies :
          BidValid(raw) => raw["tender_id"] # bid[Len(bid)]["tender_id"]

\* C10: listing the Bids of a Tender under the identifier text the API
\* reports for it returns every Bid submitted against that Tender, in
\* whatever letter case its identifier was written, and no other Bid.
C10_ListBidsReturnsAll ==
    [][response'.op = "list_bids" =>
          \A i \in 1..Len(tender) :
             list_bids(FormatId(tender[i]["_id"]))
                => ItemIds(response') =
                      {FormatId(bid[j]["_id"]) :
                         j \in {k \in 1..Len(bid) :
                                  ParseId(bid[k]["tender_id"][1]) = tender[i]["_id"]}}]_vars

\* The record the mapper is documented to produce for a stored document:
\* its fields, and the documented default for each optional field it lacks.
DocumentedRecord(d) ==
    [id |-> FormatId(d["_id"]),
     title |-> d["title"],
     description |-> d["description"],
     category |-> d["category"],
     budget_qar |-> IF "budget_qar" \in DOMAIN d THEN d["budget_qar"] ELSE None,
     issuer |-> d["issuer"],
     location |-> IF "location" \in DOMAIN d THEN d["location"] ELSE Some(Qatar),
     deadline |-> d["deadline"],
     status |-> IF "status" \in DOMAIN d THEN d["status"] ELSE Some(Open),
     tags |-> IF "tags" \in DOMAIN d THEN d["tags"] ELSE Some(<<>>)]

\* C7: a stored Tender document that carries every required field and lacks
\* any subset of the optional ones is mapped, by get_tender and by
\* list_tenders, to an output record with the documented default in place of
\* each absent field.
C7_MapperAppliesDefaults ==
    [][/\ response'.op = "get_tender" =>
             \A i \in 1..Len(tender) :
                get_tender(FormatId(tender[i]["_id"]))
                    => /\ response'.status = Ok
                       /\ response'.items = <<DocumentedRecord(tender[i])>>
       /\ response'.op = "list_tenders" =>
             (list_tenders(None, None, None)
                 => /\ response'.status = Ok
                    /\ response'.items =
                          [i \in 1..Len(tender) |-> DocumentedRecord(tender[i])])]_vars

====
